---- MODULE Spec2Model ----
(***************************************************************************)
(* Model of the OpenAI transport path of Reactive-Resume:                  *)
(*   client  customFetch (Transport Adapter)                               *)
(*   server  OpenAIController.proxy           (Proxy Endpoint)             *)
(*   server  OpenAIService.proxyRequest       (upstream call)              *)
(* One outbound SDK call is followed from customFetch to the value its     *)
(* promise settles with.  Every await in the code is a step boundary.      *)
(* customFetch keeps no state between calls, so a behaviour follows one    *)
(* call; the store may change at any moment of it.                         *)
(***************************************************************************)
EXTENDS Integers, Sequences, FiniteSets, TLC

\* ------------------------------------------------------------------ bounds
Alphabet == {"h", "/"}
MaxBaseLen == 1
MaxUrlLen == 2

\* ---------------------------------------------------------- JS value model
\* A JavaScript value: t is its kind, k the shape of an object
\*   "error"  {error: {message: v}}      "detail" {detail: v}
\*   "http"   {statusCode: n, message: v} "data"  {data: v}
\* v a string payload, n a number payload.
JS(t, k, v, n) == [t |-> t, k |-> k, v |-> v, n |-> n]
Undefined == JS("undefined", "", "", 0)
Null == JS("null", "", "", 0)
Str(s) == JS("string", "", s, 0)
ErrObj(m) == JS("object", "error", m, 0)
DetailObj(m) == JS("object", "detail", m, 0)
HttpObj(code, m) == JS("object", "http", m, code)
DataObj(m) == JS("object", "data", m, 0)

\* ToBoolean: undefined, null and "" are falsy, every object is truthy
Truthy(x) ==
  CASE x.t = "undefined" -> FALSE
    [] x.t = "null" -> FALSE
    [] x.t = "string" -> x.v # ""
    [] OTHER -> TRUE

\* typeof x
TypeOf(x) == IF x.t = "null" THEN "object" ELSE x.t

\* a || b
OrElse(a, b) == IF Truthy(a) THEN a ELSE b

\* ------------------------------------------------------------ URL strings
\* URLs are character sequences so that prefix tests and replacement are
\* computed; the stored base URL is null or a string.
Strings(n) == UNION {[1..k -> Alphabet] : k \in 0..n}
NullURL == [t |-> "null", s |-> <<>>]
UrlStr(s) == [t |-> "string", s |-> s]
BaseURLs == {NullURL} \cup {UrlStr(s) : s \in Strings(MaxBaseLen)}
Urls == Strings(MaxUrlLen)

\* String.prototype.startsWith
StartsWith(s, p) == Len(p) <= Len(s) /\ SubSeq(s, 1, Len(p)) = p

\* String.prototype.indexOf, 1-based, 0 when absent
IndexOf(s, p) ==
  LET hits == {i \in 1..(Len(s) + 1) :
                 i + Len(p) - 1 <= Len(s) /\ SubSeq(s, i, i + Len(p) - 1) = p}
  IN IF hits = {} THEN 0 ELSE CHOOSE i \in hits : \A j \in hits : i <= j

\* String.prototype.replace with a string pattern: first occurrence only
StrReplace(s, p, r) ==
  LET i == IndexOf(s, p)
  IN IF i = 0 THEN s
     ELSE SubSeq(s, 1, i - 1) \o r \o SubSeq(s, i + Len(p), Len(s))

\* --------------------------------------------------------- call arguments
ValidJSON == {"{\"n\":1}", "{\"n\":2}"}
InvalidJSON == "{"
Methods == {Undefined, Str(""), Str("GET"), Str("DELETE")}
Bodies == {Undefined, Str(""), Str(InvalidJSON)} \cup {Str(j) : j \in ValidJSON}
AuthValues == {Undefined, Str(""), Str("Bearer k")}

\* init of fetch(input, init): headers = FALSE is an init without headers
Inits ==
  {i \in [method : Methods, body : Bodies, headers : BOOLEAN,
           authorization : AuthValues] :
     i.headers \/ i.authorization = Undefined}

NoInit == [method |-> Undefined, body |-> Undefined, headers |-> FALSE,
           authorization |-> Undefined]

VARIABLES
  baseURL,      \* useOpenAiStore.baseURL
  pc,           \* position of the call that is in flight
  call,         \* arguments of the customFetch call and the base URL it read
  directCall,   \* arguments handed to the native fetch
  proxyReq,     \* request sent to POST /openai/proxy
  caller,       \* session of the caller as seen by the guard
  upstreamCall, \* call made by OpenAIService.proxyRequest
  upstreamOutcome, \* how the upstream call settled
  thrown,       \* HttpException thrown by OpenAIController.proxy
  proxyResp,    \* outcome of axios.post as the client sees it
  result,       \* what the promise of customFetch settled with
  codec,        \* one conversion of the Content Codec (format-resume)
  fmt,          \* one call of formatResumeAsText
  task,         \* one task operation building its model request
  client,       \* the model client openai() returned
  page          \* the settings page: store, form, save timer, model list

vars == <<baseURL, pc, call, directCall, proxyReq, caller, upstreamCall,
          upstreamOutcome, thrown, proxyResp, result, codec, fmt, task,
          client, page>>

\* a component that takes no part in the behaviour at hand
Off == [pc |-> "off"]

\* ------------------------------------------------------------ JSON codec
\* JSON.stringify: the text of a value (undefined has no text)
JSONStringify(x) ==
  CASE x.t = "undefined" -> ""
    [] x.t = "null" -> "null"
    [] x.t = "string" -> "\"" \o x.v \o "\""
    [] x.k = "error" -> "{\"error\":{\"message\":\"" \o x.v \o "\"}}"
    [] x.k = "detail" -> "{\"detail\":\"" \o x.v \o "\"}"
    [] x.k = "http" -> "{\"statusCode\":" \o ToString(x.n)
                          \o ",\"message\":\"" \o x.v \o "\"}"
    [] x.k = "data" -> "{\"data\":\"" \o x.v \o "\"}"
    [] OTHER -> "{\"n\":" \o ToString(x.n) \o "}"

\* JSON.parse of a request body: a SyntaxError unless the text is JSON
JSONParses(text) == text \in ValidJSON
JSONParse(text) == JS("object", "n", "", IF text = "{\"n\":1}" THEN 1 ELSE 2)

\* ------------------------------------------------------------ customFetch
\* variant: the prefix test is left out
IsCustomBaseURL_NoPrefixTest(base, url) ==
  /\ base.t = "string"
  /\ base.s # <<>>

\* baseURL && url.startsWith(baseURL)
IsCustomBaseURL(base, url) ==
  /\ base.t = "string"
  /\ base.s # <<>>
  /\ StartsWith(url, base.s)

\* variant: every occurrence of the base URL is removed, not the first
RECURSIVE StrReplaceAll(_, _, _)
StrReplaceAll(s, p, r) ==
  LET i == IndexOf(s, p)
  IN IF i = 0 \/ p = <<>> THEN s
     ELSE SubSeq(s, 1, i - 1) \o r
            \o StrReplaceAll(SubSeq(s, i + Len(p), Len(s)), p, r)
ProxyPath_ReplaceAll(url, base) == StrReplaceAll(url, base, <<>>)

\* url.replace(baseURL, "")
ProxyPath(url, base) == StrReplace(url, base, <<>>)

\* variant: the body is looked at before the explicit method
InferMethod_BodyFirst(init) ==
  IF Truthy(init.body) THEN "POST"
  ELSE IF Truthy(init.method) THEN init.method.v
  ELSE "GET"

\* explicit method, else POST with a body, else GET
InferMethod(init) ==
  IF Truthy(init.method) THEN init.method.v
  ELSE IF Truthy(init.body) THEN "POST"
  ELSE "GET"

\* init?.body ? JSON.parse(init.body) : undefined
BodyThrows(init) == Truthy(init.body) /\ ~JSONParses(init.body.v)
ParseBody(init) ==
  IF Truthy(init.body) THEN JSONParse(init.body.v) ELSE Undefined

\* init?.headers ? new Headers(init.headers).get("authorization") || undefined
\*               : undefined
Authorization(init) ==
  IF init.headers THEN OrElse(init.authorization, Undefined) ELSE Undefined

\* headers: authorization ? { authorization } : undefined
ProxyHeaders(authorization) ==
  IF Truthy(authorization) THEN authorization ELSE Undefined

NoCall == [kind |-> "none", url |-> <<>>, init |-> NoInit, baseURL |-> NullURL]
NoFetch == [kind |-> "none", url |-> <<>>, init |-> NoInit]
NoProxyReq == [kind |-> "none", baseURL |-> <<>>, path |-> <<>>,
               method |-> "", body |-> Undefined, authorization |-> Undefined]
NoUpstream == [kind |-> "none", method |-> "", url |-> <<>>,
               body |-> Undefined, authorization |-> Undefined]
NoOutcome == [kind |-> "none", status |-> 0, data |-> Undefined, message |-> ""]
NoException == [kind |-> "none", response |-> Undefined, status |-> 0]
NoResult == [kind |-> "none", status |-> 0, body |-> ""]

\* new Response(JSON.stringify(data), {status})
Response(status, data) ==
  [kind |-> "response", status |-> status, body |-> JSONStringify(data)]
Rejected(name) == [kind |-> "rejected", status |-> 0, body |-> name]

\* catch (error): status and payload of the synthesized response
DefaultErrorData == ErrObj("Unknown error")

\* variant: the status of the upstream response is not read
ErrorStatus_Always500(error) == 500

ErrorStatus(error) ==
  IF error.kind = "response"
  THEN (IF error.status # 0 THEN error.status ELSE 500)
  ELSE 500

\* variant: the message of an Error is passed on unwrapped
ErrorData_RawMessage(error) ==
  CASE error.kind = "response" -> OrElse(error.data, DefaultErrorData)
    [] error.kind = "noResponse" -> DefaultErrorData
    [] error.kind = "error" -> Str(error.message)
    [] OTHER -> DefaultErrorData

ErrorData(error) ==
  CASE error.kind = "response" -> OrElse(error.data, DefaultErrorData)
    [] error.kind = "noResponse" -> DefaultErrorData
    [] error.kind = "error" -> ErrObj(error.message)
    [] OTHER -> DefaultErrorData

\* useOpenAiStore.setBaseURL
SetBaseURL(b) ==
  /\ baseURL' = b
  /\ UNCHANGED <<codec, fmt, task, client, page, pc, call, directCall, proxyReq, caller, upstreamCall,
                 upstreamOutcome, thrown, proxyResp, result>>

\* customFetch up to its first await: native fetch, or axios.post to the
\* proxy, or the exception of JSON.parse
CustomFetch(url, init) ==
  /\ pc = "idle"
  /\ call' = [kind |-> "call", url |-> url, init |-> init, baseURL |-> baseURL]
  /\ caller' = "none"
  /\ upstreamCall' = NoUpstream
  /\ upstreamOutcome' = NoOutcome
  /\ thrown' = NoException
  /\ proxyResp' = NoOutcome
  /\ UNCHANGED <<codec, fmt, task, client, page, baseURL>>
  /\ IF ~IsCustomBaseURL(baseURL, url)
     THEN /\ directCall' = [kind |-> "fetch", url |-> url, init |-> init]
          /\ proxyReq' = NoProxyReq
          /\ result' = NoResult
          /\ pc' = "direct"
     ELSE IF BodyThrows(init)
     THEN /\ directCall' = NoFetch
          /\ proxyReq' = NoProxyReq
          /\ result' = Rejected("SyntaxError")
          /\ pc' = "done"
     ELSE /\ directCall' = NoFetch
          /\ proxyReq' = [kind |-> "post",
                          baseURL |-> baseURL.s,
                          path |-> ProxyPath(url, baseURL.s),
                          method |-> InferMethod(init),
                          body |-> ParseBody(init),
                          authorization |-> ProxyHeaders(Authorization(init))]
          /\ result' = NoResult
          /\ pc' = "proxy"

\* return fetch(input, init): the promise of the native fetch is returned
NativeStatuses == {200, 401}
NativeFetchSettles(r) ==
  /\ pc = "direct"
  /\ result' = r
  /\ pc' = "done"
  /\ UNCHANGED <<codec, fmt, task, client, page, baseURL, call, directCall, proxyReq, caller, upstreamCall,
                 upstreamOutcome, thrown, proxyResp>>

NativeResults ==
  {[kind |-> "native", status |-> s, body |-> ""] : s \in NativeStatuses}
    \cup {Rejected("TypeError")}

\* ------------------------------------------- Proxy Endpoint, server side
\* TwoFactorGuard.canActivate: only an authenticated session passes
TwoFactorGuard(session) == session = "authenticated"

\* variant: the route carries no guard
UseGuards_None(session) == TRUE

\* @UseGuards(TwoFactorGuard) on OpenAIController.proxy
UseGuards(session) == TwoFactorGuard(session)

\* the response of a request the guard rejected
GuardRejection ==
  [kind |-> "response", status |-> 401,
   data |-> HttpObj(401, "Unauthorized"), message |-> ""]

\* const method = body.method || "POST"
ControllerMethod(method) == IF method # "" THEN method ELSE "POST"

\* const url = `${baseURL}${path}`
UpstreamUrl(base, path) == base \o path

\* variant: the header is not forwarded
UpstreamAuthorization_Dropped(authorization) == Undefined

\* headers.Authorization, set only if (authorization)
UpstreamAuthorization(authorization) ==
  IF Truthy(authorization) THEN authorization ELSE Undefined

\* httpService.get(url, {headers}) for "GET", httpService.post(url, body,
\* {headers}) for every other method
ProxyRequest(base, path, method, body, authorization) ==
  IF method = "GET"
  THEN [kind |-> "call", method |-> "GET", url |-> UpstreamUrl(base, path),
        body |-> Undefined,
        authorization |-> UpstreamAuthorization(authorization)]
  ELSE [kind |-> "call", method |-> "POST", url |-> UpstreamUrl(base, path),
        body |-> body,
        authorization |-> UpstreamAuthorization(authorization)]

\* OpenAIController.proxy up to the await of proxyRequest, behind its guard
Proxy(session) ==
  /\ pc = "proxy"
  /\ caller' = session
  /\ IF ~UseGuards(session)
     THEN /\ proxyResp' = GuardRejection
          /\ upstreamCall' = NoUpstream
          /\ pc' = "settling"
     ELSE /\ upstreamCall' =
               ProxyRequest(proxyReq.baseURL, proxyReq.path,
                            ControllerMethod(proxyReq.method), proxyReq.body,
                            proxyReq.authorization)
          /\ proxyResp' = NoOutcome
          /\ pc' = "upstream"
  /\ UNCHANGED <<codec, fmt, task, client, page, baseURL, call, directCall, proxyReq, upstreamOutcome,
                 thrown, result>>

Sessions == {"anonymous", "authenticated"}

\* outcomes of the upstream call
UpstreamStatuses == {401, 503}
UpstreamErrorData ==
  {Undefined, Null, Str(""), Str("bad key"), ErrObj("bad key"),
   DetailObj("not found")}
UpstreamOutcomes ==
  {[kind |-> "ok", status |-> 200, data |-> d, message |-> ""] :
     d \in {DataObj("models"), Str("")}}
  \cup {[kind |-> "axiosResponse", status |-> s, data |-> d, message |-> ""] :
          s \in UpstreamStatuses, d \in UpstreamErrorData}
  \cup {[kind |-> "axiosNoResponse", status |-> 0, data |-> Undefined,
         message |-> "connect ECONNREFUSED"],
        [kind |-> "other", status |-> 0, data |-> Undefined,
         message |-> "no elements in sequence"]}

GenericFailure == ErrObj("Failed to proxy request to OpenAI-compatible API")

\* variant: every failure is reported as the generic failure
HttpExceptionOf_Generic(error) ==
  [kind |-> "HttpException", response |-> GenericFailure, status |-> 500]

\* catch (error) of OpenAIController.proxy: the HttpException it throws
HttpExceptionOf(error) ==
  IF error.kind = "axiosResponse"
  THEN [kind |-> "HttpException",
        response |->
          IF TypeOf(error.data) = "string"
             \/ (TypeOf(error.data) = "object" /\ error.data.t # "null")
          THEN error.data
          ELSE ErrObj("Unknown error"),
        status |-> IF error.status # 0 THEN error.status ELSE 500]
  ELSE [kind |-> "HttpException", response |-> GenericFailure, status |-> 500]

\* body of the HTTP response of an HttpException: an object response is the
\* body, a string response is wrapped as {statusCode, message}
ExceptionBody(ex) ==
  IF ex.response.t = "string" THEN HttpObj(ex.status, ex.response.v)
  ELSE ex.response

\* OpenAIController.proxy after the await: return the upstream data, or
\* throw the HttpException of the failure
UpstreamSettles(outcome) ==
  /\ pc = "upstream"
  /\ upstreamOutcome' = outcome
  /\ IF outcome.kind = "ok"
     THEN /\ thrown' = NoException
          /\ proxyResp' = [kind |-> "ok", status |-> 201,
                           data |-> outcome.data, message |-> ""]
     ELSE /\ thrown' = HttpExceptionOf(outcome)
          /\ proxyResp' = [kind |-> "response",
                           status |-> HttpExceptionOf(outcome).status,
                           data |-> ExceptionBody(HttpExceptionOf(outcome)),
                           message |-> ""]
  /\ pc' = "settling"
  /\ UNCHANGED <<codec, fmt, task, client, page, baseURL, call, directCall, proxyReq, caller, upstreamCall,
                 result>>

\* axios.post fails before the controller runs: no response at all, or the
\* response of a gateway in front of the server
TransportFailures ==
  {[kind |-> "noResponse", status |-> 0, data |-> Undefined, message |-> ""],
   [kind |-> "error", status |-> 0, data |-> Undefined,
    message |-> "Network Error"],
   [kind |-> "other", status |-> 0, data |-> Undefined, message |-> ""],
   [kind |-> "response", status |-> 502, data |-> Str(""), message |-> ""],
   [kind |-> "response", status |-> 502, data |-> Str("Bad Gateway"),
    message |-> ""]}

ProxyTransportFails(failure) ==
  /\ pc = "proxy"
  /\ proxyResp' = failure
  /\ pc' = "settling"
  /\ UNCHANGED <<codec, fmt, task, client, page, baseURL, call, directCall, proxyReq, caller, upstreamCall,
                 upstreamOutcome, thrown, result>>

\* customFetch after the await of axios.post: the synthesized Response
CustomFetchSettles ==
  /\ pc = "settling"
  /\ result' = IF proxyResp.kind = "ok"
               THEN Response(200, proxyResp.data)
               ELSE Response(ErrorStatus(proxyResp), ErrorData(proxyResp))
  /\ pc' = "done"
  /\ UNCHANGED <<codec, fmt, task, client, page, baseURL, call, directCall, proxyReq, caller, upstreamCall,
                 upstreamOutcome, thrown, proxyResp>>

\* no call of customFetch has been made
TransportIdle ==
  /\ baseURL = NullURL
  /\ pc = "idle"
  /\ call = NoCall
  /\ directCall = NoFetch
  /\ proxyReq = NoProxyReq
  /\ caller = "none"
  /\ upstreamCall = NoUpstream
  /\ upstreamOutcome = NoOutcome
  /\ thrown = NoException
  /\ proxyResp = NoOutcome
  /\ result = NoResult

transportVars == <<baseURL, pc, call, directCall, proxyReq, caller,
                   upstreamCall, upstreamOutcome, thrown, proxyResp, result>>

Init ==
  /\ TransportIdle
  /\ codec = Off
  /\ fmt = Off
  /\ task = Off
  /\ client = Off
  /\ page = Off

Next ==
  \/ \E b \in BaseURLs : SetBaseURL(b)
  \/ \E url \in Urls, init \in Inits : CustomFetch(url, init)
  \/ \E r \in NativeResults : NativeFetchSettles(r)
  \/ \E session \in Sessions : Proxy(session)
  \/ \E outcome \in UpstreamOutcomes : UpstreamSettles(outcome)
  \/ \E failure \in TransportFailures : ProxyTransportFails(failure)
  \/ CustomFetchSettles

Spec == Init /\ [][Next]_vars

\* ---------------------------------------------- the client of openai()
\* openai(), the store holding an API key: config.baseURL and config.fetch
\* are set when the stored base URL is truthy
OpenAI ==
  /\ client' = IF baseURL.t = "string" /\ baseURL.s # <<>>
               THEN [pc |-> "built", baseURL |-> baseURL.s, fetch |-> "customFetch"]
               ELSE [pc |-> "built", baseURL |-> <<>>, fetch |-> "fetch"]
  /\ UNCHANGED <<transportVars, codec, fmt, task, page>>

\* the client sends a request: config.fetch is called with the URL made of
\* the client's base URL and the path of the resource
ClientRequest(path, init) ==
  /\ client.pc = "built"
  /\ IF client.fetch = "customFetch"
     THEN CustomFetch(client.baseURL \o path, init)
     ELSE /\ pc = "idle"
          /\ pc' = "direct"
          /\ call' = NoCall
          /\ directCall' = [kind |-> "fetch", url |-> path, init |-> init]
          /\ proxyReq' = NoProxyReq
          /\ caller' = "none"
          /\ upstreamCall' = NoUpstream
          /\ upstreamOutcome' = NoOutcome
          /\ thrown' = NoException
          /\ proxyResp' = NoOutcome
          /\ result' = NoResult
          /\ UNCHANGED <<codec, fmt, task, client, page, baseURL>>

\* the settings change while clients are built and used
NextRouting ==
  \/ \E b \in BaseURLs : SetBaseURL(b)
  \/ OpenAI
  \/ \E path \in Strings(MaxUrlLen - MaxBaseLen) :
       \E init \in {i \in Inits : i.headers /\ Truthy(i.method)} :
         ClientRequest(path, init)
  \/ \E r \in NativeResults : NativeFetchSettles(r)
  \/ \E session \in Sessions : Proxy(session)
  \/ \E outcome \in UpstreamOutcomes : UpstreamSettles(outcome)
  \/ \E failure \in TransportFailures : ProxyTransportFails(failure)
  \/ CustomFetchSettles

SpecRouting == Init /\ [][NextRouting]_vars

TypeOK ==
  /\ baseURL \in BaseURLs
  /\ pc \in {"idle", "direct", "proxy", "upstream", "settling", "done"}

\* ------------------------------------------------------------- properties
\* vocabulary of the claims, stated on the arguments of the call
BaseUnset(b) == b.t = "null" \/ b.s = <<>>
Prefixed(url, b) ==
  \E rest \in Strings(MaxUrlLen) : url = b.s \o rest
MethodGiven(init) == init.method.t = "string" /\ init.method.v # ""
BodyPresent(init) == init.body.t = "string" /\ init.body.v # ""
AuthGiven(init) ==
  init.headers /\ init.authorization.t = "string" /\ init.authorization.v # ""
AuthAbsent(init) == ~init.headers \/ init.authorization.t = "undefined"
Called == call.kind = "call"
Proxied == proxyReq.kind = "post"

\* C1: a call made while the base URL is unset, or to a target that does not
\* start with the base URL, goes to the native fetch with the same input and
\* init, and no request to the Proxy Endpoint (nor an upstream call) exists.
C1_DirectDispatch ==
  (Called /\ (BaseUnset(call.baseURL) \/ ~Prefixed(call.url, call.baseURL)))
    => /\ directCall = [kind |-> "fetch", url |-> call.url, init |-> call.init]
       /\ proxyReq = NoProxyReq
       /\ upstreamCall = NoUpstream
       /\ proxyResp = NoOutcome

C1_Witness ==
  /\ pc = "done"
  /\ ~BaseUnset(call.baseURL)
  /\ ~Prefixed(call.url, call.baseURL)
  /\ directCall.kind = "fetch"
  /\ result.kind = "native"

\* C2: the method of a proxied call is the explicit method when one is
\* given, with or without a body; else POST with a body, else GET.
C2_MethodInference ==
  Proxied =>
    proxyReq.method =
      (IF MethodGiven(call.init) THEN call.init.method.v
       ELSE IF BodyPresent(call.init) THEN "POST" ELSE "GET")

C2_Witness ==
  /\ Proxied
  /\ call.init.method = Str("DELETE")
  /\ BodyPresent(call.init)
  /\ proxyReq.method = "DELETE"

\* C3: the path of a proxied call is the target without its base URL prefix,
\* and the URL the Proxy Endpoint builds, baseURL + path, is the target.
C3_PathRoundTrip ==
  /\ Proxied =>
       /\ proxyReq.baseURL = call.baseURL.s
       /\ proxyReq.path =
            SubSeq(call.url, Len(call.baseURL.s) + 1, Len(call.url))
       /\ proxyReq.baseURL \o proxyReq.path = call.url
  /\ upstreamCall.kind = "call" => upstreamCall.url = call.url

C3_Witness ==
  /\ upstreamCall.kind = "call"
  /\ proxyReq.path # <<>>
  /\ IndexOf(proxyReq.path, proxyReq.baseURL) > 0
  /\ upstreamCall.url = call.url

\* text of an {error: {message}} payload
ErrorMessages ==
  {"Unknown error", "Network Error", "bad key",
   "Failed to proxy request to OpenAI-compatible API"}
IsErrorPayload(text) ==
  \E m \in ErrorMessages : text = "{\"error\":{\"message\":\"" \o m \o "\"}}"
EmptyBody(d) == d.t \in {"undefined", "null"} \/ d = Str("")
Settled == pc = "done"

\* C4 as stated: after a proxy failure with a response, the synthesized
\* response has the status and the body of that response, whatever they are.
C4_ExactStatusAndBody ==
  (Settled /\ proxyResp.kind = "response")
    => /\ result.kind = "response"
       /\ result.status = proxyResp.status
       /\ result.body = JSONStringify(proxyResp.data)

\* C4 amended: the status is always reused; the body is reused when it is
\* not empty, and an empty body (absent, null, "") is replaced by
\* {error: {message: "Unknown error"}}.
C4_StatusAndNonEmptyBody ==
  (Settled /\ proxyResp.kind = "response")
    => /\ result.kind = "response"
       /\ result.status = proxyResp.status
       /\ ~EmptyBody(proxyResp.data)
            => result.body = JSONStringify(proxyResp.data)
       /\ EmptyBody(proxyResp.data)
            => result.body = "{\"error\":{\"message\":\"Unknown error\"}}"

C4_Witness ==
  /\ Settled
  /\ upstreamOutcome.kind = "axiosResponse"
  /\ upstreamOutcome.status = 401
  /\ upstreamOutcome.data = ErrObj("bad key")
  /\ result.status = 401
  /\ result.body = "{\"error\":{\"message\":\"bad key\"}}"

\* C5 as stated, for a proxied target: whatever the method, body and headers
\* and however the proxy call ends, customFetch settles with a response.
C5_NeverRaises ==
  (Settled /\ ~BaseUnset(call.baseURL) /\ Prefixed(call.url, call.baseURL))
    => result.kind = "response"

\* C6: after a proxy failure without a response the synthesized response has
\* status 500 and a payload {error: {message}}.
C6_GenericFailure ==
  (Settled /\ proxyResp.kind \in {"noResponse", "error", "other"})
    => /\ result.kind = "response"
       /\ result.status = 500
       /\ IsErrorPayload(result.body)

C6_Witness ==
  /\ Settled
  /\ proxyResp.kind = "error"
  /\ result.status = 500
  /\ result.body = "{\"error\":{\"message\":\"Network Error\"}}"

Failed == upstreamOutcome.kind \in {"axiosResponse", "axiosNoResponse", "other"}

\* C7 as stated: an upstream failure with a response of status S and body B
\* makes the endpoint fail with S and B; a failure without a response makes
\* it fail with 500 and the generic payload.
C7_StatusAndBodyForwarded ==
  /\ upstreamOutcome.kind = "axiosResponse"
       => /\ thrown.kind = "HttpException"
          /\ thrown.status = upstreamOutcome.status
          /\ thrown.response = upstreamOutcome.data
  /\ upstreamOutcome.kind \in {"axiosNoResponse", "other"}
       => /\ thrown.kind = "HttpException"
          /\ thrown.status = 500
          /\ thrown.response = GenericFailure

\* C7 amended: the body B is forwarded when it is a string or a non-null
\* object; any other B (null, absent) is replaced by
\* {error: {message: "Unknown error"}}, the status S being kept.  On the wire
\* an object B is the response body and a string B is wrapped as
\* {statusCode: S, message: B}.
C7_StringOrObjectForwarded ==
  /\ upstreamOutcome.kind = "axiosResponse"
       => /\ thrown.kind = "HttpException"
          /\ thrown.status = upstreamOutcome.status
          /\ proxyResp.kind = "response"
          /\ proxyResp.status = upstreamOutcome.status
          /\ upstreamOutcome.data.t = "object"
               => /\ thrown.response = upstreamOutcome.data
                  /\ proxyResp.data = upstreamOutcome.data
          /\ upstreamOutcome.data.t = "string"
               => /\ thrown.response = upstreamOutcome.data
                  /\ proxyResp.data =
                       HttpObj(upstreamOutcome.status, upstreamOutcome.data.v)
          /\ upstreamOutcome.data.t \in {"null", "undefined"}
               => /\ thrown.response = ErrObj("Unknown error")
                  /\ proxyResp.data = ErrObj("Unknown error")
  /\ upstreamOutcome.kind \in {"axiosNoResponse", "other"}
       => /\ thrown.kind = "HttpException"
          /\ thrown.status = 500
          /\ thrown.response = GenericFailure
          /\ proxyResp.kind = "response"
          /\ proxyResp.status = 500
          /\ proxyResp.data = GenericFailure

C7_Witness ==
  /\ upstreamOutcome.kind = "axiosResponse"
  /\ upstreamOutcome.status = 401
  /\ upstreamOutcome.data = Null
  /\ thrown.status = 401
  /\ thrown.response = ErrObj("Unknown error")

\* C8 as stated: for GET the upstream call is a GET without a body, for any
\* other method it is made with that method and the given body.
C8_MethodForwarded ==
  upstreamCall.kind = "call"
    => IF proxyReq.method = "GET"
       THEN upstreamCall.method = "GET" /\ upstreamCall.body = Undefined
       ELSE /\ upstreamCall.method = proxyReq.method
            /\ upstreamCall.body = proxyReq.body

\* C9: no upstream call is made for a caller that is not authenticated.
C9_GuardBeforeUpstream ==
  caller = "anonymous"
    => /\ upstreamCall = NoUpstream
       /\ upstreamOutcome = NoOutcome
       /\ thrown = NoException

C9_Witness ==
  /\ Settled
  /\ caller = "anonymous"
  /\ proxyResp = GuardRejection
  /\ result.status = 401

\* C10: an authorization value of the SDK call is carried unchanged by the
\* proxy request and by the upstream call; without an authorization header
\* neither carries one.
C10_BearerForwarded ==
  /\ (Proxied /\ AuthGiven(call.init))
       => proxyReq.authorization = call.init.authorization
  /\ (Proxied /\ AuthAbsent(call.init))
       => proxyReq.authorization = Undefined
  /\ (upstreamCall.kind = "call" /\ AuthGiven(call.init))
       => upstreamCall.authorization = call.init.authorization
  /\ (upstreamCall.kind = "call" /\ AuthAbsent(call.init))
       => upstreamCall.authorization = Undefined

C10_Witness ==
  /\ upstreamCall.kind = "call"
  /\ call.init.authorization = Str("Bearer k")
  /\ proxyReq.authorization = Str("Bearer k")
  /\ upstreamCall.authorization = Str("Bearer k")

\* C11 as stated: every failure response of the Proxy Endpoint carries a
\* payload of the shape {error: {message}}, whatever the upstream error body.
HasErrorShape(d) == d.t = "object" /\ d.k = "error"
C11_ErrorPayloadShape ==
  thrown.kind = "HttpException"
    => /\ proxyResp.kind = "response"
       /\ HasErrorShape(proxyResp.data)

\* ================================================= Content Codec
\* A text is the sequence of its lines (text.split("\n")), a line a sequence
\* of characters; the empty text is the single empty line.  Markup is a
\* sequence of tokens: a tag, an entity, or one character.
MaxLines == 4
Dot == "U+2022"
WhiteSpace == {" "}
BulletMarkers == {"-", Dot}
SpecialChars == {"&", "<", ">", "\"", "'"}

CodecLines ==
  { <<>>,
    <<" ">>,
    <<"-", " ", "a">>,
    <<Dot, " ", "b">>,
    <<"c">>,
    <<"-", "a">>,
    <<" ", "-", " ", " ", "<", " ">>,
    <<"&", "<", ">", "\"", "'">> }

Texts == UNION {[1..k -> CodecLines] : k \in 1..MaxLines}
EmptyText == << <<>> >>

\* String.prototype.trim on one line
RECURSIVE TrimStart(_)
TrimStart(l) ==
  IF l # <<>> /\ Head(l) \in WhiteSpace THEN TrimStart(Tail(l)) ELSE l
RECURSIVE TrimEnd(_)
TrimEnd(l) ==
  IF l # <<>> /\ l[Len(l)] \in WhiteSpace
  THEN TrimEnd(SubSeq(l, 1, Len(l) - 1)) ELSE l
Trim(l) == TrimEnd(TrimStart(l))

\* trimmed.match(/^[-•]\s+(.+)$/): does it match, and its group 1
BulletMatch(trimmed) ==
  /\ Len(trimmed) >= 3
  /\ trimmed[1] \in BulletMarkers
  /\ trimmed[2] \in WhiteSpace
BulletItem(trimmed) == TrimStart(Tail(trimmed))

\* variant: the apostrophe is missing from the map
EscapeChar_NoApostrophe(c) ==
  CASE c = "&" -> "&amp;"
    [] c = "<" -> "&lt;"
    [] c = ">" -> "&gt;"
    [] c = "\"" -> "&quot;"
    [] OTHER -> c

\* escapeHtml: the map of one character
EscapeChar(c) ==
  CASE c = "&" -> "&amp;"
    [] c = "<" -> "&lt;"
    [] c = ">" -> "&gt;"
    [] c = "\"" -> "&quot;"
    [] c = "'" -> "&#039;"
    [] OTHER -> c

\* escapeHtml: text.replace(/[&<>"']/g, (char) => map[char])
EscapeHtml(text) == [i \in 1..Len(text) |-> EscapeChar(text[i])]

\* array.join("") of token sequences
RECURSIVE Join(_)
Join(parts) == IF parts = <<>> THEN <<>> ELSE Head(parts) \o Join(Tail(parts))

\* flushList: the parts after a pending list, if any, is emitted
FlushList(htmlParts, currentList) ==
  IF Len(currentList) > 0
  THEN Append(htmlParts,
              <<"<ul>">>
                \o Join([i \in 1..Len(currentList) |->
                        <<"<li>">> \o EscapeHtml(currentList[i]) \o <<"</li>">>])
                \o <<"</ul>">>)
  ELSE htmlParts

\* `<p>${escapeHtml(trimmed)}</p>`
Paragraph(trimmed) == <<"<p>">> \o EscapeHtml(trimmed) \o <<"</p>">>

\* variant: a non-bullet line does not flush the pending list
RECURSIVE ScanLines_NoFlush(_, _, _)
ScanLines_NoFlush(lines, htmlParts, currentList) ==
  IF lines = <<>> THEN FlushList(htmlParts, currentList)
  ELSE LET trimmed == Trim(Head(lines))
       IN IF BulletMatch(trimmed)
          THEN ScanLines_NoFlush(Tail(lines), htmlParts,
                                 Append(currentList, BulletItem(trimmed)))
          ELSE IF trimmed # <<>>
          THEN ScanLines_NoFlush(Tail(lines),
                                 Append(htmlParts, Paragraph(trimmed)),
                                 currentList)
          ELSE ScanLines_NoFlush(Tail(lines), htmlParts, currentList)

\* for (const line of lines) { ... } flushList(): the parts of the markup
RECURSIVE ScanLines(_, _, _)
ScanLines(lines, htmlParts, currentList) ==
  IF lines = <<>> THEN FlushList(htmlParts, currentList)
  ELSE LET trimmed == Trim(Head(lines))
       IN IF BulletMatch(trimmed)
          THEN ScanLines(Tail(lines), htmlParts,
                         Append(currentList, BulletItem(trimmed)))
          ELSE IF trimmed # <<>>
          THEN ScanLines(Tail(lines),
                         Append(FlushList(htmlParts, currentList),
                                Paragraph(trimmed)),
                         <<>>)
          ELSE ScanLines(Tail(lines), FlushList(htmlParts, currentList), <<>>)

\* variant: lists are emitted after the paragraphs that interrupt them
ConvertTextToHtml_NoFlush(text) ==
  IF text = EmptyText THEN <<>> ELSE Join(ScanLines_NoFlush(text, <<>>, <<>>))

\* convertTextToHtml of format-resume with the hand-written scanner
ConvertTextToHtml(text) ==
  IF text = EmptyText THEN <<>> ELSE Join(ScanLines(text, <<>>, <<>>))

\* ---- convertTextToHtml of format-resume with markdown-it
\* md.render(text.trim()) with {breaks: true, html: false, linkify: false},
\* for a text of one line: a "- " line is a one-item list, any other line a
\* paragraph; the renderer escapes & < > " and leaves the apostrophe.
MdEscapeChar(c) ==
  CASE c = "&" -> "&amp;"
    [] c = "<" -> "&lt;"
    [] c = ">" -> "&gt;"
    [] c = "\"" -> "&quot;"
    [] OTHER -> c
MdRender(t) ==
  LET MdEscape(text) == [i \in 1..Len(text) |-> MdEscapeChar(text[i])]
  IN
  IF t = <<>> THEN <<>>
  ELSE IF Len(t) >= 3 /\ t[1] \in {"-", "+", "*"} /\ t[2] \in WhiteSpace
  THEN <<"<ul>", "\n", "<li>">> \o MdEscape(TrimStart(Tail(t)))
         \o <<"</li>", "\n", "</ul>", "\n">>
  ELSE <<"<p>">> \o MdEscape(t) \o <<"</p>", "\n">>
MdConvertTextToHtml(text) ==
  IF text = EmptyText THEN <<>> ELSE MdRender(Trim(text[1]))

\* ---- convertHtmlToMarkdown
\* Rich text is given as its block elements: [tag, items], a paragraph
\* holding one text.  turndownService.turndown writes a paragraph as its
\* text, an unordered item as "-   text", an ordered item as "n.  text",
\* the items of a list on consecutive lines and one blank line between
\* blocks.
MaxBlocks == 2
RichBlocks ==
  LET RichTexts == { <<"a">>, <<"b">> }
      RichItems == UNION {[1..k -> RichTexts] : k \in 1..2}
  IN  {[tag |-> "p", items |-> <<t>>] : t \in RichTexts}
        \cup {[tag |-> g, items |-> it] : g \in {"ul", "ol"}, it \in RichItems}
RichInputs == UNION {[1..k -> RichBlocks] : k \in 0..MaxBlocks}

TurndownPrefix(tag, i) ==
  IF tag = "ul" THEN <<"-", " ", " ", " ">>
  ELSE IF tag = "ol" THEN <<ToString(i), ".", " ", " ">>
  ELSE <<>>
RECURSIVE Turndown(_)
Turndown(rich) ==
  LET TurndownBlock(b) ==
        [i \in 1..Len(b.items) |-> TurndownPrefix(b.tag, i) \o b.items[i]]
  IN  IF rich = <<>> THEN <<>>
      ELSE IF Len(rich) = 1 THEN TurndownBlock(rich[1])
      ELSE TurndownBlock(rich[1]) \o << <<>> >> \o Turndown(Tail(rich))

\* .replace(/\n{3,}/g, "\n\n"): two or more blank lines in a row become one
RECURSIVE CollapseBlank(_)
CollapseBlank(lines) ==
  IF Len(lines) < 3 THEN lines
  ELSE IF lines[2] = <<>> /\ lines[3] = <<>> /\ Len(lines) >= 4
  THEN CollapseBlank(<<lines[1]>> \o SubSeq(lines, 3, Len(lines)))
  ELSE <<lines[1]>> \o CollapseBlank(Tail(lines))

\* .trim() of a text
RECURSIVE TrimTextStart(_)
TrimTextStart(lines) ==
  IF Len(lines) > 1 /\ TrimStart(lines[1]) = <<>>
  THEN TrimTextStart(Tail(lines))
  ELSE <<TrimStart(lines[1])>> \o Tail(lines)
RECURSIVE TrimTextEnd(_)
TrimTextEnd(lines) ==
  IF Len(lines) > 1 /\ TrimEnd(lines[Len(lines)]) = <<>>
  THEN TrimTextEnd(SubSeq(lines, 1, Len(lines) - 1))
  ELSE SubSeq(lines, 1, Len(lines) - 1) \o <<TrimEnd(lines[Len(lines)])>>
TrimText(lines) == TrimTextEnd(TrimTextStart(lines))

\* convertHtmlToMarkdown: turndown, newline normalisation, trim
ConvertHtmlToMarkdown(rich) ==
  IF rich = <<>> THEN EmptyText
  ELSE TrimText(CollapseBlank(Turndown(rich)))

\* ---- one conversion
ConvertHtmlToMarkdownStep ==
  /\ codec.pc = "rich"
  /\ codec' = [codec EXCEPT !.pc = "text",
                            !.text = ConvertHtmlToMarkdown(codec.rich)]
  /\ UNCHANGED <<transportVars, fmt, task, client, page>>

ConvertTextToHtmlStep ==
  /\ codec.pc = "text"
  /\ codec' = [codec EXCEPT !.pc = "html", !.renderer = "scanner",
                            !.html = ConvertTextToHtml(codec.text)]
  /\ UNCHANGED <<transportVars, fmt, task, client, page>>

MdConvertTextToHtmlStep ==
  /\ codec.pc = "text"
  /\ Len(codec.text) = 1
  /\ codec' = [codec EXCEPT !.pc = "html", !.renderer = "markdown-it",
                            !.html = MdConvertTextToHtml(codec.text)]
  /\ UNCHANGED <<transportVars, fmt, task, client, page>>

InitCodec ==
  /\ TransportIdle
  /\ codec \in
       {[pc |-> "text", src |-> "text", rich |-> <<>>, text |-> t,
         html |-> <<>>, renderer |-> "none"] : t \in Texts}
       \cup {[pc |-> "rich", src |-> "rich", rich |-> x, text |-> EmptyText,
              html |-> <<>>, renderer |-> "none"] : x \in RichInputs}
  /\ fmt = Off
  /\ task = Off
  /\ client = Off
  /\ page = Off

NextCodec ==
  \/ ConvertHtmlToMarkdownStep
  \/ ConvertTextToHtmlStep
  \/ MdConvertTextToHtmlStep

SpecCodec == InitCodec /\ [][NextCodec]_vars

\* ---- reading markup back as elements
Entities ==
  [amp |-> "&", lt |-> "<", gt |-> ">", quot |-> "\"", apos |-> "'"]
UnescapeChar(c) ==
  CASE c = "&amp;" -> Entities.amp
    [] c = "&lt;" -> Entities.lt
    [] c = "&gt;" -> Entities.gt
    [] c = "&quot;" -> Entities.quot
    [] c = "&#039;" -> Entities.apos
    [] OTHER -> c
Unescape(toks) == [i \in 1..Len(toks) |-> UnescapeChar(toks[i])]
FirstIndex(toks, tok) ==
  IF \E i \in 1..Len(toks) : toks[i] = tok
  THEN CHOOSE i \in 1..Len(toks) :
         toks[i] = tok /\ \A j \in 1..(i - 1) : toks[j] # tok
  ELSE 0
RECURSIVE ParseItems(_)
ParseItems(toks) ==
  IF toks = <<>> THEN <<>>
  ELSE IF Head(toks) = "<li>"
  THEN LET e == FirstIndex(toks, "</li>")
       IN  <<Unescape(SubSeq(toks, 2, e - 1))>>
             \o ParseItems(SubSeq(toks, e + 1, Len(toks)))
  ELSE ParseItems(Tail(toks))
CloseTag(open) ==
  IF open = "<ul>" THEN "</ul>" ELSE IF open = "<ol>" THEN "</ol>" ELSE "</p>"
TagName(open) ==
  IF open = "<ul>" THEN "ul" ELSE IF open = "<ol>" THEN "ol" ELSE "p"
RECURSIVE ParseHtml(_)
ParseHtml(toks) ==
  IF toks = <<>> THEN <<>>
  ELSE IF Head(toks) \in {"<ul>", "<ol>", "<p>"}
  THEN LET e == FirstIndex(toks, CloseTag(Head(toks)))
           inner == SubSeq(toks, 2, e - 1)
       IN  <<[tag |-> TagName(Head(toks)),
              items |-> IF Head(toks) = "<p>" THEN <<Unescape(inner)>>
                        ELSE ParseItems(inner)]>>
             \o ParseHtml(SubSeq(toks, e + 1, Len(toks)))
  ELSE ParseHtml(Tail(toks))

\* ---- the elements a text stands for
\* a bullet line: after trimming, a marker, whitespace, then an item
IsBulletLine(line) ==
  \E k \in 2..(Len(Trim(line)) - 1) :
    /\ Trim(line)[1] \in BulletMarkers
    /\ \A j \in 2..k : Trim(line)[j] \in WhiteSpace
IsEmptyLine(line) == \A i \in 1..Len(line) : line[i] \in WhiteSpace
ItemOf(line) ==
  LET t == Trim(line)
      k == CHOOSE k \in 2..(Len(t) - 1) :
             /\ \A j \in 2..k : t[j] \in WhiteSpace
             /\ t[k + 1] \notin WhiteSpace
  IN  SubSeq(t, k + 1, Len(t))
\* the length of the run of bullet lines a text starts with
RECURSIVE BulletRun(_)
BulletRun(lines) ==
  IF lines # <<>> /\ IsBulletLine(Head(lines))
  THEN 1 + BulletRun(Tail(lines))
  ELSE 0
RECURSIVE Elements(_)
Elements(lines) ==
  IF lines = <<>> THEN <<>>
  ELSE LET n == BulletRun(lines)
       IN  IF n > 0
           THEN <<[tag |-> "ul", items |-> [i \in 1..n |-> ItemOf(lines[i])]]>>
                  \o Elements(SubSeq(lines, n + 1, Len(lines)))
           ELSE IF IsEmptyLine(Head(lines)) THEN Elements(Tail(lines))
           ELSE <<[tag |-> "p", items |-> <<Trim(Head(lines))>>]>>
                  \o Elements(Tail(lines))

Scanned == codec.pc = "html" /\ codec.renderer = "scanner"

C13_NoRawSpecialChar ==
  codec.pc = "html"
    => \A i \in 1..Len(codec.html) : codec.html[i] \notin SpecialChars

\* the paragraphs and lists of rich text, ordered and unordered lists alike
Structure(blocks) ==
  [i \in 1..Len(blocks) |->
     [tag |-> IF blocks[i].tag = "p" THEN "p" ELSE "list",
      items |-> blocks[i].items]]

\* C14 as stated: rich text of paragraphs and lists (ordered or unordered),
\* converted by convertHtmlToMarkdown and back by convertTextToHtml, has the
\* same sequence of paragraphs and lists with the same items in the same
\* lists in the same order.
C14_StructuralRoundTrip ==
  (Scanned /\ codec.src = "rich")
    => Structure(ParseHtml(codec.html)) = Structure(codec.rich)

\* ================================================= Document Formatter
\* formatResumeAsText.  A line of the output is [head, values]: the fixed
\* text of the template and the values interpolated into it, in order
\* ("### ${position} at ${company}" is head "###" with two values).
\* Heads "##" and "###" carry the "\n" the code puts before a heading.
MaxItems == 2
Line(head, values) == [head |-> head, values |-> values]
Field(field, label) == [field |-> field, label |-> label]

\* the item loops of the standard sections, in the order of the code: the
\* heading of the section, the fields of the item heading, the guarded
\* `Label: value` lines, and whether a Keywords line follows; a bullet
\* section writes one "- name..." line per item with the listed extras
SectionTable == <<
  [key |-> "experience", heading |-> "## Experience", bullet |-> FALSE,
   title |-> <<"position", "company">>, titleGuard |-> FALSE,
   fields |-> <<Field("location", "Location"), Field("date", "Date"),
                Field("summary", "Description"),
                Field("companyDescription", "Company")>>,
   keywords |-> FALSE, extras |-> <<>>],
  [key |-> "education", heading |-> "## Education", bullet |-> FALSE,
   title |-> <<"institution">>, titleGuard |-> FALSE,
   fields |-> <<Field("studyType", "Study Type"), Field("area", "Area"),
                Field("date", "Date"), Field("score", "Score"),
                Field("summary", "Description")>>,
   keywords |-> FALSE, extras |-> <<>>],
  [key |-> "projects", heading |-> "## Projects", bullet |-> FALSE,
   title |-> <<"name">>, titleGuard |-> FALSE,
   fields |-> <<Field("description", "Description"),
                Field("summary", "Summary"), Field("date", "Date"),
                Field("url", "URL")>>,
   keywords |-> TRUE, extras |-> <<>>],
  [key |-> "skills", heading |-> "## Skills", bullet |-> TRUE,
   title |-> <<"name">>, titleGuard |-> FALSE, fields |-> <<>>,
   keywords |-> FALSE, extras |-> <<"keywords", "description">>],
  [key |-> "certifications", heading |-> "## Certifications", bullet |-> FALSE,
   title |-> <<"name">>, titleGuard |-> FALSE,
   fields |-> <<Field("issuer", "Issuer"), Field("date", "Date"),
                Field("summary", "Description")>>,
   keywords |-> FALSE, extras |-> <<>>],
  [key |-> "awards", heading |-> "## Awards", bullet |-> FALSE,
   title |-> <<"title">>, titleGuard |-> FALSE,
   fields |-> <<Field("awarder", "Awarder"), Field("date", "Date"),
                Field("summary", "Description")>>,
   keywords |-> FALSE, extras |-> <<>>],
  [key |-> "publications", heading |-> "## Publications", bullet |-> FALSE,
   title |-> <<"name">>, titleGuard |-> FALSE,
   fields |-> <<Field("publisher", "Publisher"), Field("date", "Date"),
                Field("summary", "Description")>>,
   keywords |-> FALSE, extras |-> <<>>],
  [key |-> "volunteer", heading |-> "## Volunteer Experience", bullet |-> FALSE,
   title |-> <<"organization">>, titleGuard |-> FALSE,
   fields |-> <<Field("position", "Position"), Field("date", "Date"),
                Field("summary", "Description")>>,
   keywords |-> FALSE, extras |-> <<>>],
  [key |-> "languages", heading |-> "## Languages", bullet |-> TRUE,
   title |-> <<"name">>, titleGuard |-> FALSE, fields |-> <<>>,
   keywords |-> FALSE, extras |-> <<"description", "level">>],
  [key |-> "interests", heading |-> "## Interests", bullet |-> TRUE,
   title |-> <<"name">>, titleGuard |-> FALSE, fields |-> <<>>,
   keywords |-> FALSE, extras |-> <<"keywords">>],
  [key |-> "references", heading |-> "## References", bullet |-> FALSE,
   title |-> <<"name">>, titleGuard |-> FALSE,
   fields |-> <<Field("description", "Description"),
                Field("summary", "Reference"), Field("url", "URL")>>,
   keywords |-> FALSE, extras |-> <<>>] >>

\* the item loop of a custom section: its heading is the section's name and
\* the item heading is written only for a named item
CustomSection ==
  [key |-> "custom", heading |-> "##", bullet |-> FALSE,
   title |-> <<"name">>, titleGuard |-> TRUE,
   fields |-> <<Field("description", "Description"),
                Field("summary", "Summary"), Field("date", "Date"),
                Field("location", "Location"), Field("url", "URL")>>,
   keywords |-> TRUE, extras |-> <<>>]

\* keywords.filter(Boolean).join(", ")
RECURSIVE JoinComma(_)
JoinComma(words) ==
  IF words = <<>> THEN ""
  ELSE IF Len(words) = 1 THEN words[1]
  ELSE words[1] \o ", " \o JoinComma(Tail(words))
FilterJoin(keywords) == JoinComma(SelectSeq(keywords, LAMBDA k : k # ""))

\* one "- ${item.name}..." line with the extras that are populated
BulletLine(row, item) ==
  LET Extra(e) ==
        IF e = "keywords"
        THEN IF FilterJoin(item.keywords) # ""
             THEN <<FilterJoin(item.keywords)>> ELSE <<>>
        ELSE IF e = "level"
        THEN IF item.level > 0 THEN <<ToString(item.level)>> ELSE <<>>
        ELSE IF item.f[e] # "" THEN <<item.f[e]>> ELSE <<>>
  IN  Line("-", <<item.f["name"]>>
                  \o Join([i \in 1..Len(row.extras) |-> Extra(row.extras[i])]))

\* the lines of one visible item
FormatItem(row, item) ==
  IF row.bullet THEN <<BulletLine(row, item)>>
  ELSE LET present == SelectSeq(row.fields, LAMBDA p : item.f[p.field] # "")
       IN  (IF row.titleGuard /\ item.f[row.title[1]] = "" THEN <<>>
            ELSE <<Line("###", [i \in 1..Len(row.title) |-> item.f[row.title[i]]])>>)
           \o [i \in 1..Len(present) |->
                 Line(present[i].label, <<item.f[present[i].field]>>)]
           \o (IF row.keywords /\ Len(item.keywords) > 0
               THEN <<Line("Keywords", <<FilterJoin(item.keywords)>>)>>
               ELSE <<>>)

\* variant: the items are written whatever their visible flag
FormatSection_EveryItem(row, heading, section) ==
  IF section.visible /\ Len(section.items) > 0
  THEN <<heading>>
         \o Join([i \in 1..Len(section.items) |-> FormatItem(row, section.items[i])])
  ELSE <<>>

\* if (section.visible && section.items.length > 0) { heading; for (item)
\* { if (!item.visible) continue; ... } }
FormatSection(row, heading, section) ==
  IF section.visible /\ Len(section.items) > 0
  THEN <<heading>>
         \o Join([i \in 1..Len(section.items) |->
                    IF section.items[i].visible
                    THEN FormatItem(row, section.items[i]) ELSE <<>>])
  ELSE <<>>

BasicsFields ==
  <<Field("name", "Name"), Field("headline", "Headline"),
    Field("email", "Email"), Field("phone", "Phone"),
    Field("location", "Location"), Field("url", "Website")>>

\* variant: the custom sections are written before the standard ones
FormatResumeAsText_CustomFirst(resumeData) ==
  Join([i \in 1..Len(resumeData.custom) |->
          FormatSection(CustomSection,
                        Line("##", <<resumeData.custom[i].name>>),
                        resumeData.custom[i])])
  \o Join([i \in 1..Len(SectionTable) |->
             FormatSection(SectionTable[i],
                           Line(SectionTable[i].heading, <<>>),
                           resumeData.sections[SectionTable[i].key])])

FormatResumeAsText(resumeData) ==
  LET present == SelectSeq(BasicsFields,
                           LAMBDA p : resumeData.basics[p.field] # "")
  IN  [i \in 1..Len(present) |->
         Line(present[i].label, <<resumeData.basics[present[i].field]>>)]
      \o (IF resumeData.summary.visible /\ resumeData.summary.content # ""
          THEN <<Line("## Summary", <<resumeData.summary.content>>)>>
          ELSE <<>>)
      \o Join([i \in 1..Len(SectionTable) |->
                 FormatSection(SectionTable[i],
                               Line(SectionTable[i].heading, <<>>),
                               resumeData.sections[SectionTable[i].key])])
      \o Join([i \in 1..Len(resumeData.custom) |->
                 FormatSection(CustomSection,
                               Line("##", <<resumeData.custom[i].name>>),
                               resumeData.custom[i])])

\* ---- documents
\* Every populated field holds a value of its own ("experience.1.date"), so
\* a value in the output names the section and item it was read from.
FieldNames ==
  {"position", "company", "location", "date", "summary", "companyDescription",
   "institution", "studyType", "area", "score", "name", "description", "url",
   "issuer", "title", "awarder", "publisher", "organization"}
Range(seq) == {seq[i] : i \in 1..Len(seq)}
Item(key, i, choice) ==
  LET v(x) == key \o "." \o ToString(i) \o "." \o x
  IN  [visible |-> choice.visible,
       f |-> [x \in FieldNames |-> IF x \in choice.populated THEN v(x) ELSE ""],
       keywords |-> IF choice.keywords = 0 THEN <<>>
                    ELSE IF choice.keywords = 1 THEN <<"">>
                    ELSE <<"", v("keyword")>>,
       level |-> IF "level" \in choice.populated THEN 3 ELSE 0]
ItemChoices(row) ==
  {c \in [visible : BOOLEAN,
          populated : {{}, Range(row.title),
                       Range(row.title) \cup {p.field : p \in Range(row.fields)}
                         \cup Range(row.extras)},
          keywords : 0..2] :
     c.keywords = 0 \/ row.keywords \/ "keywords" \in Range(row.extras)}
ItemList(row, choices) ==
  [i \in 1..Len(choices) |-> Item(row.key, i, choices[i])]
ItemChoiceLists(row) == UNION {[1..k -> ItemChoices(row)] : k \in 0..MaxItems}
NoSection == [visible |-> TRUE, items |-> <<>>]
Document(basics, summary, key, section, custom) ==
  [basics |-> [x \in {p.field : p \in Range(BasicsFields)} |->
                 IF x \in basics THEN "basics." \o x ELSE ""],
   summary |-> summary,
   sections |-> [k \in {SectionTable[i].key : i \in 1..Len(SectionTable)} |-> IF k = key THEN section ELSE NoSection],
   custom |-> custom]
NoSummary == [visible |-> TRUE, content |-> ""]

FormatResumeAsTextStep ==
  /\ fmt.pc = "document"
  /\ fmt' = [fmt EXCEPT !.pc = "text", !.out = FormatResumeAsText(fmt.doc)]
  /\ UNCHANGED <<transportVars, codec, task, client, page>>

\* the documents formatted: one with basics and a summary only, one with
\* items in one standard section, one with a custom section, one with
\* several sections of full items
InitFormat ==
  /\ TransportIdle
  /\ codec = Off
  /\ task = Off
  /\ client = Off
  /\ page = Off
  /\ \/ \E b \in SUBSET {p.field : p \in Range(BasicsFields)},
             v \in BOOLEAN, c \in {"", "summary.content"} :
          fmt = [pc |-> "document", out |-> <<>>,
                 doc |-> Document(b, [visible |-> v, content |-> c], "none",
                                  NoSection, <<>>)]
     \/ \E row \in Range(SectionTable), sv \in BOOLEAN :
          \E cs \in ItemChoiceLists(row) :
            fmt = [pc |-> "document", out |-> <<>>,
                   doc |-> Document({"name"}, NoSummary, row.key,
                                    [visible |-> sv, items |-> ItemList(row, cs)],
                                    <<>>)]
     \/ \E n \in {"", "custom.name"}, sv \in BOOLEAN :
          \E cs \in ItemChoiceLists(CustomSection) :
            fmt = [pc |-> "document", out |-> <<>>,
                   doc |-> Document({"name"}, NoSummary, "none", NoSection,
                                    <<[name |-> n, visible |-> sv,
                                       items |-> ItemList(CustomSection, cs)]>>)]
     \/ \E keys \in SUBSET {SectionTable[i].key : i \in 1..Len(SectionTable)} :
          LET Full(row) ==
                [visible |-> TRUE,
                 items |-> ItemList(row, [i \in 1..MaxItems |->
                             CHOOSE c \in ItemChoices(row) :
                               /\ c.visible /\ c.keywords = 0
                               /\ \A d \in ItemChoices(row) :
                                    d.populated \subseteq c.populated])]
              one == Document({"name", "email"},
                              [visible |-> TRUE, content |-> "summary.content"],
                              "none", NoSection,
                              <<[name |-> "custom.name"] @@ Full(CustomSection)>>)
          IN  fmt = [pc |-> "document", out |-> <<>>,
                     doc |-> [one EXCEPT !.sections =
                                [k \in DOMAIN one.sections |->
                                   IF k \in keys
                                   THEN Full(CHOOSE row \in Range(SectionTable) : row.key = k)
                                   ELSE NoSection]]]

NextFormat == FormatResumeAsTextStep

SpecFormat == InitFormat /\ [][NextFormat]_vars

\* ---- reading the output
Formatted == fmt.pc = "text"
Written(value) == \E i \in 1..Len(fmt.out) : value \in Range(fmt.out[i].values)
ValuesOf(item) ==
  ({item.f[x] : x \in FieldNames} \cup Range(item.keywords)) \ {""}
AllSections(doc) ==
  {[heading |-> SectionTable[i].heading, name |-> "",
    visible |-> doc.sections[SectionTable[i].key].visible,
    items |-> doc.sections[SectionTable[i].key].items] : i \in 1..Len(SectionTable)}
  \cup {[heading |-> "##", name |-> doc.custom[i].name,
         visible |-> doc.custom[i].visible,
         items |-> doc.custom[i].items] : i \in 1..Len(doc.custom)}

\* C15: the text formatResumeAsText returns holds no heading and no value of
\* a section whose visible flag is false, and no value of an item whose
\* visible flag is false.
C15_HiddenNotWritten ==
  Formatted =>
    /\ ~fmt.doc.summary.visible =>
         \A i \in 1..Len(fmt.out) : fmt.out[i].head # "## Summary"
    /\ \A sec \in AllSections(fmt.doc) :
         /\ ~sec.visible =>
              /\ \A i \in 1..Len(fmt.out) : fmt.out[i].head # sec.heading
              /\ sec.name # "" => ~Written(sec.name)
         /\ \A k \in 1..Len(sec.items) :
              (~sec.visible \/ ~sec.items[k].visible)
                => \A v \in ValuesOf(sec.items[k]) : ~Written(v)

\* a visible section with a hidden populated item before a visible one: the
\* second is written, the first is not
C15_Witness ==
  /\ Formatted
  /\ LET sec == fmt.doc.sections["projects"]
     IN  /\ sec.visible
         /\ Len(sec.items) = 2
         /\ ~sec.items[1].visible /\ sec.items[1].f["date"] # ""
         /\ sec.items[2].visible /\ Written(sec.items[2].f["date"])
         /\ ~Written(sec.items[1].f["date"])

\* C16 as stated: formatResumeAsText writes no line for an empty field:
\* every value written into a line, a joined keyword list and the fields of
\* an item heading included, is non-empty.
C16_NoEmptyValue ==
  Formatted =>
    \A i \in 1..Len(fmt.out) : \A v \in Range(fmt.out[i].values) : v # ""

\* ================================================= Task Operations
\* formatItemContext: the lines of parts; the empty string is no line
ItemContextKeys ==
  {"company", "position", "location", "date", "typeOfEmployment",
   "companyDescription", "institution", "studyType", "area", "score"}
ShapeKeys == {"company", "position", "institution"}

\* variant: the location is written whatever the shape
FormatItemContext_LocationAlways(itemContext) ==
  IF itemContext["location"] # ""
  THEN <<Line("Location", <<itemContext["location"]>>)>> ELSE <<>>

FormatItemContext(itemContext) ==
  LET Has(k) == itemContext[k] # ""
      Part(k, label) ==
        IF Has(k) THEN <<Line(label, <<itemContext[k]>>)>> ELSE <<>>
  IN  (IF Has("company") \/ Has("position")
       THEN (IF Has("position") /\ Has("company")
             THEN <<Line("Position",
                         <<itemContext["position"], itemContext["company"]>>)>>
             ELSE IF Has("position") THEN Part("position", "Position")
             ELSE Part("company", "Company"))
            \o Part("location", "Location")
            \o Part("date", "Date")
            \o Part("typeOfEmployment", "Type of Employment")
            \o Part("companyDescription", "Company Description")
       ELSE <<>>)
      \o (IF Has("institution")
          THEN Part("institution", "Institution")
               \o Part("studyType", "Study Type")
               \o Part("area", "Area")
               \o Part("date", "Date")
               \o Part("score", "Score")
          ELSE <<>>)

\* ---- the user message: the strings pushed on userMessages, in order.
\* A block is its introduction, what is interpolated into it, and whether
\* the "\n\n---\n\n" separator ends it.
NoSubject == [format |-> "none", rich |-> <<>>, text |-> EmptyText]
Block(kind, intro, lines, subject, separator) ==
  [kind |-> kind, intro |-> intro, lines |-> lines, subject |-> subject,
   separator |-> separator]
DocumentBlock(resumeData) ==
  Block("document", "Here is the complete resume for context:",
        FormatResumeAsText(resumeData), NoSubject, TRUE)
EditBlock(contextText) ==
  Block("edit", "Here is the context for the current item being edited:",
        contextText, NoSubject, TRUE)
Instruction(source, mood) ==
  IF source = "fix-grammar.ts"
  THEN "Please fix the spelling and grammar errors in the following paragraph."
  ELSE IF source = "change-tone.ts"
  THEN "Please change the tone of the following paragraph to be " \o mood \o "."
  ELSE "Please improve the writing of the following paragraph."
SystemPrompt(source, mood) ==
  IF source = "fix-grammar.ts" THEN "SYSTEM_PROMPT (grammar)"
  ELSE IF source = "change-tone.ts" THEN "getSystemPrompt(" \o mood \o ")"
  ELSE "SYSTEM_PROMPT (writing)"

\* improveWriting of improve-writing.ts takes no item context, does not read
\* includeResumeContext and sends the text as it is

\* const contextText = formatItemContext(itemContext)
ContextText(t) ==
  IF t.source # "improve-writing.ts" /\ t.itemContext.supplied
  THEN FormatItemContext(t.itemContext.ctx) ELSE <<>>
\* const inputText = convertHtmlToMarkdown(text)
InputText(t) ==
  IF t.source = "improve-writing.ts"
  THEN [format |-> "html", rich |-> t.text, text |-> EmptyText]
  ELSE [format |-> "markdown", rich |-> <<>>,
        text |-> ConvertHtmlToMarkdown(t.text)]

\* variant: the item context is pushed before the document
UserMessages_EditFirst(t) ==
  (IF ContextText(t) # <<>> THEN <<EditBlock(ContextText(t))>> ELSE <<>>)
  \o (IF t.includeResumeContext /\ t.resumeData.supplied
      THEN <<DocumentBlock(t.resumeData.doc)>> ELSE <<>>)
  \o <<Block("instruction", Instruction(t.source, t.mood), <<>>, InputText(t), FALSE)>>

UserMessages(t) ==
  (IF (t.source = "improve-writing.ts" \/ t.includeResumeContext)
        /\ t.resumeData.supplied
   THEN <<DocumentBlock(t.resumeData.doc)>> ELSE <<>>)
  \o (IF ContextText(t) # <<>> THEN <<EditBlock(ContextText(t))>> ELSE <<>>)
  \o <<Block("instruction", Instruction(t.source, t.mood), <<>>, InputText(t), FALSE)>>

\* the argument of openai().chat.completions.create
RequestParams(t) ==
  [messages |-> <<[role |-> "system", content |-> SystemPrompt(t.source, t.mood),
                   blocks |-> <<>>],
                  [role |-> "user", content |-> "", blocks |-> UserMessages(t)]>>,
   n |-> 1,
   temperature |-> IF t.source = "part_002" /\ t.useDefaultTemperature
                   THEN [sent |-> TRUE, value |-> t.temperatureImprove]
                   ELSE [sent |-> FALSE, value |-> 0]]

\* ---- arguments of a task operation
ItemContext(supplied, populated) ==
  [supplied |-> supplied,
   ctx |-> [k \in ItemContextKeys |->
              IF k \in populated THEN "item." \o k ELSE ""]]
TaskArgs ==
  [text : {<<>>, <<[tag |-> "p", items |-> <<<<"a">>>>]>>,
           <<[tag |-> "ul", items |-> <<<<"a">>, <<"b">>>>]>>},
   resumeData : {[supplied |-> FALSE, doc |-> Document({}, NoSummary, "none", NoSection, <<>>)],
                 [supplied |-> TRUE, doc |-> Document({"name"}, NoSummary, "none", NoSection, <<>>)]},
   itemContext : {ItemContext(FALSE, {})}
                   \cup {ItemContext(TRUE, a \cup b) :
                           a \in SUBSET ShapeKeys,
                           b \in {{}, {"date"}, {"location", "date"},
                                  ItemContextKeys \ ShapeKeys}}]

\* what the model answers: no choice, or one choice with or without content
Completions ==
  {[choices |-> 0, content |-> FALSE, text |-> EmptyText],
   [choices |-> 1, content |-> FALSE, text |-> EmptyText],
   [choices |-> 1, content |-> TRUE, text |-> <<<<" ">>>>],
   [choices |-> 1, content |-> TRUE, text |-> <<<<"-", " ", "a">>, <<" ">>>>]}

\* new OpenAI(config) is built without maxRetries: the client sends a request
\* again, up to twice, when the answer is 408, 409, 429 or 5xx
MaxRetries == 2
FailureStatuses == {400, 429, 503}
ShouldRetry(status) == status \in {408, 409, 429} \/ status >= 500

\* the error openai() throws
MissingCredential ==
  "Your OpenAI API Key has not been set yet. Please go to your account settings to enable OpenAI Integration."

\* variant: every stored value counts as set
Falsy_Never(v) == FALSE
\* `!apiKey`, `if (baseURL)`, `if (model)`, `if (maxTokens)`: null, the empty
\* string and zero are falsy (values are written as strings)
Falsy(v) == v \in {"null", "", "0"}

\* the operation up to `await openai().chat.completions.create(...)`;
\* openai() throws when the store holds no API key
Invoke(source, mood, args) ==
  /\ task.pc = "ready"
  /\ LET t == [task EXCEPT !.source = source, !.mood = mood,
                           !.text = args.text,
                           !.resumeData = args.resumeData,
                           !.itemContext = args.itemContext]
         u == [t EXCEPT !.contextText = ContextText(t),
                        !.inputText = InputText(t),
                        !.request = RequestParams(t)]
     IN  task' = IF ~Falsy(task.apiKey)
                 THEN [u EXCEPT !.pc = "awaiting", !.calls = 1]
                 ELSE [u EXCEPT !.pc = "rejected",
                                !.error = MissingCredential]
  /\ UNCHANGED <<transportVars, codec, fmt, client, page>>

ImproveWriting == \E args \in TaskArgs : Invoke("part_002", "", args)
FixGrammar == \E args \in TaskArgs : Invoke("fix-grammar.ts", "", args)
ChangeTone ==
  \E mood \in {"casual", "professional"}, args \in TaskArgs : Invoke("change-tone.ts", mood, args)
\* improveWriting(text, resumeData) of improve-writing.ts
ImproveWritingOfResume ==
  \E args \in TaskArgs :
    /\ ~args.itemContext.supplied
    /\ Invoke("improve-writing.ts", "", args)

\* the request is answered with an error status: the client sends it again
\* or gives up, and create() rejects
CompletionFails(status) ==
  /\ task.pc = "awaiting"
  /\ task' = IF ShouldRetry(status) /\ task.calls <= MaxRetries
             THEN [task EXCEPT !.calls = task.calls + 1]
             ELSE [task EXCEPT !.pc = "rejected", !.error = "APIError"]
  /\ UNCHANGED <<transportVars, codec, fmt, client, page>>

\* variant: the operation goes on without a choice
NoChoices_Ignored(completion) == FALSE
\* result.choices.length === 0
NoChoices(completion) == completion.choices = 0

\* the rest of the operation, once the completion is there
ChatCompletionSettles(completion) ==
  /\ task.pc = "awaiting"
  /\ IF NoChoices(completion)
     THEN task' = [task EXCEPT !.pc = "rejected", !.completion = <<completion>>,
                     !.error = "OpenAI did not return any choices for your text."]
     ELSE IF task.source = "improve-writing.ts"
     THEN task' = [task EXCEPT !.pc = "returned", !.completion = <<completion>>,
                     !.returned =
                        IF completion.content
                        THEN [format |-> "text", rich |-> <<>>,
                              text |-> TrimText(completion.text), html |-> <<>>]
                        ELSE [format |-> "html", rich |-> task.text,
                              text |-> EmptyText, html |-> <<>>]]
     ELSE LET plainText == IF completion.content THEN TrimText(completion.text)
                           ELSE task.inputText.text
          IN  task' = [task EXCEPT !.pc = "returned", !.completion = <<completion>>,
                         !.returned = [format |-> "html", rich |-> <<>>,
                                       text |-> EmptyText,
                                       html |-> ConvertTextToHtml(plainText)]]
  /\ UNCHANGED <<transportVars, codec, fmt, client, page>>

\* useOpenAiStore as the operation reads it: apiKey (null at first),
\* includeResumeContext and useDefaultTemperature (true unless switched
\* off), temperatureImprove (0.7 unless moved; in tenths)
InitTask ==
  /\ TransportIdle
  /\ codec = Off
  /\ fmt = Off
  /\ client = Off
  /\ page = Off
  /\ \E apiKey \in {"null", "sk"},
        includeResumeContext, useDefaultTemperature \in BOOLEAN,
        temperatureImprove \in {7, 12} :
       task = [pc |-> "ready", apiKey |-> apiKey,
               includeResumeContext |-> includeResumeContext,
               useDefaultTemperature |-> useDefaultTemperature,
               temperatureImprove |-> temperatureImprove,
               source |-> "", mood |-> "", text |-> <<>>,
               resumeData |-> [supplied |-> FALSE,
                               doc |-> Document({}, NoSummary, "none", NoSection, <<>>)],
               itemContext |-> ItemContext(FALSE, {}),
               contextText |-> <<>>, inputText |-> NoSubject,
               request |-> [messages |-> <<>>, n |-> 0,
                            temperature |-> [sent |-> FALSE, value |-> 0]],
               calls |-> 0,
               completion |-> <<>>,
               error |-> "",
               returned |-> [format |-> "none", rich |-> <<>>,
                             text |-> EmptyText, html |-> <<>>]]

\* ---------------------------------------------------------------------
\* Settings page: the store, the form, the save timer, the model list
\* ---------------------------------------------------------------------
MaxChanges == 2

\* formSchema; /^https?:\/\/\S+$/ matches "https://a" and not "a"
FormSchemaValid(v) == v.apiKey # "" /\ v.baseURL \in {"", "https://a"}

\* the values the form can be given, one field at a time
FieldValues ==
  [apiKey |-> {"", "sk"}, baseURL |-> {"", "https://a", "a"},
   model |-> {"", "DEFAULT_MODEL", "m1"},
   maxTokens |-> {"0", "DEFAULT_MAX_TOKENS", "2048"},
   includeResumeContext |-> {"true", "false"}]

\* defaultValues of onRemove
DefaultValues ==
  [apiKey |-> "", baseURL |-> "", model |-> "DEFAULT_MODEL",
   maxTokens |-> "DEFAULT_MAX_TOKENS", includeResumeContext |-> "true"]

\* variant: the save writes every field
SaveSettings_EveryField(store, value) == value
\* saveSettings: the store after the setters have run; the temperature
\* toggle and sliders are written like includeResumeContext
SaveSettings(store, value) ==
  [store EXCEPT !.apiKey = value.apiKey,
                !.baseURL = IF Falsy(value.baseURL) THEN @ ELSE value.baseURL,
                !.model = IF Falsy(value.model) THEN @ ELSE value.model,
                !.maxTokens = IF Falsy(value.maxTokens) THEN @ ELSE value.maxTokens,
                !.includeResumeContext = value.includeResumeContext]

\* the form.watch callback: the pending timer is cleared, and a new one is
\* set, holding the value, when form.formState.isValid reads true
Watch(p, value) ==
  [p EXCEPT !.form = value,
            !.saveTimeout = IF p.isValid THEN <<value>> ELSE <<>>]

\* the user edits one field
FormChange(field, v) ==
  /\ page.pc # "off" /\ page.mounted
  /\ page.changes < MaxChanges
  /\ page.form[field] # v
  /\ page' = [Watch(page, [page.form EXCEPT ![field] = v])
                EXCEPT !.changes = page.changes + 1, !.op = "change"]
  /\ UNCHANGED <<transportVars, codec, fmt, task, client>>

\* the resolver has validated the values of the form, and the page has
\* rendered with the new formState
ValidationSettles ==
  /\ page.pc # "off" /\ page.mounted
  /\ page.isValid # FormSchemaValid(page.form)
  /\ page' = [page EXCEPT !.isValid = FormSchemaValid(page.form), !.op = "validate"]
  /\ UNCHANGED <<transportVars, codec, fmt, task, client>>

\* the timer fires 300 ms after it was set
SaveTimeoutFires ==
  /\ page.pc # "off" /\ page.mounted
  /\ page.saveTimeout # <<>>
  /\ page' = [page EXCEPT !.store = SaveSettings(page.store, page.saveTimeout[1]),
                          !.saveTimeout = <<>>, !.op = "saveSettings"]
  /\ UNCHANGED <<transportVars, codec, fmt, task, client>>

\* the remove button, enabled when the form differs from the default values
OnRemove ==
  /\ page.pc # "off" /\ page.mounted
  /\ page.form # DefaultValues
  /\ page' = [Watch(page, DefaultValues)
                EXCEPT !.store = [DefaultValues EXCEPT !.apiKey = "null",
                                                       !.baseURL = "null"],
                       !.op = "onRemove"]
  /\ UNCHANGED <<transportVars, codec, fmt, task, client>>

\* the fetch button, enabled when nothing is loading and the form has a key
FetchModels ==
  /\ page.pc = "idle" /\ page.mounted
  /\ ~page.isLoadingModels /\ page.form.apiKey # ""
  /\ page' = IF Falsy(page.store.apiKey)
             THEN [page EXCEPT !.modelError = "Please enter an API key first.",
                               !.op = "fetchModels"]
             ELSE [page EXCEPT !.isLoadingModels = TRUE, !.modelError = "",
                               !.pc = "listing", !.currentModel = page.store.model,
                               !.op = "fetchModels"]
  /\ UNCHANGED <<transportVars, codec, fmt, task, client>>

\* response.data sorted by label
ModelOptions(data) == SelectSeq(<<"DEFAULT_MODEL", "m1", "m2">>, LAMBDA m : m \in data)

\* client.models.list() resolves
ModelsListResolves(data) ==
  /\ page.pc = "listing"
  /\ LET modelOptions == ModelOptions(data)
         currentModel == page.currentModel
         p == [page EXCEPT !.pc = "idle", !.op = "listed"]
         q == IF ~page.mounted THEN p
              ELSE [p EXCEPT !.isLoadingModels = FALSE,
                             !.models = IF currentModel # "DEFAULT_MODEL"
                                           /\ currentModel \notin data
                                        THEN <<currentModel>> \o modelOptions
                                        ELSE modelOptions]
     IN  page' = IF /\ currentModel = "DEFAULT_MODEL"
                    /\ "DEFAULT_MODEL" \notin data
                    /\ modelOptions # <<>>
                 THEN [(IF page.mounted
                        THEN Watch(q, [q.form EXCEPT !.model = modelOptions[1]])
                        ELSE q)
                         EXCEPT !.store.model = modelOptions[1]]
                 ELSE q
  /\ UNCHANGED <<transportVars, codec, fmt, task, client>>

\* variant: without the finally block
ModelsListRejects_NoFinally ==
  /\ page.pc = "listing"
  /\ page' = [page EXCEPT !.pc = "idle", !.op = "failed",
                          !.modelError = "error.message"]
  /\ UNCHANGED <<transportVars, codec, fmt, task, client>>

\* openai() throws or client.models.list() rejects
ModelsListRejects ==
  /\ page.pc = "listing"
  /\ page' = IF page.mounted
             THEN [page EXCEPT !.pc = "idle", !.op = "failed", !.isLoadingModels = FALSE,
                               !.modelError = "error.message"]
             ELSE [page EXCEPT !.pc = "idle", !.op = "failed"]
  /\ UNCHANGED <<transportVars, codec, fmt, task, client>>

\* the cleanup of the auto-save effect
Unmount ==
  /\ page.pc # "off" /\ page.mounted
  /\ page' = [page EXCEPT !.mounted = FALSE, !.saveTimeout = <<>>, !.op = "unmount"]
  /\ UNCHANGED <<transportVars, codec, fmt, task, client>>

\* the page mounts over the persisted store: defaultValues of useForm
InitPage ==
  /\ TransportIdle
  /\ codec = Off
  /\ fmt = Off
  /\ task = Off
  /\ client = Off
  /\ \E apiKey \in {"null", "sk"}, base \in {"null", "https://a"},
        model \in {"DEFAULT_MODEL", "m1"} :
       LET store == [DefaultValues EXCEPT !.apiKey = apiKey, !.baseURL = base,
                                          !.model = model]
       IN  page = [pc |-> "idle", mounted |-> TRUE, op |-> "mount", store |-> store,
                   form |-> [store EXCEPT
                               !.apiKey = IF apiKey = "null" THEN "" ELSE apiKey,
                               !.baseURL = IF base = "null" THEN "" ELSE base],
                   isValid |-> FALSE, saveTimeout |-> <<>>, changes |-> 0,
                   models |-> <<>>, isLoadingModels |-> FALSE, modelError |-> "",
                   currentModel |-> ""]

NextPage ==
  \/ \E field \in DOMAIN FieldValues : \E v \in FieldValues[field] : FormChange(field, v)
  \/ ValidationSettles
  \/ SaveTimeoutFires
  \/ OnRemove
  \/ FetchModels
  \/ \E data \in SUBSET {"DEFAULT_MODEL", "m2"} : ModelsListResolves(data)
  \/ ModelsListRejects
  \/ Unmount

SpecPage == InitPage /\ [][NextPage]_vars

\* the promise of client.models.list() settles: the request is answered,
\* fails, or runs into the timeout of the client
SpecPageLive ==
  SpecPage /\ WF_vars(ModelsListRejects
                        \/ \E data \in SUBSET {"DEFAULT_MODEL", "m2"} :
                             ModelsListResolves(data))

NextTask ==
  \/ ImproveWriting
  \/ FixGrammar
  \/ ChangeTone
  \/ ImproveWritingOfResume
  \/ \E status \in FailureStatuses : CompletionFails(status)
  \/ \E completion \in Completions : ChatCompletionSettles(completion)

SpecTask == InitTask /\ [][NextTask]_vars

\* everything that calls the model: the task operations, or the page
InitOperations == InitTask \/ InitPage
NextOperations == NextTask \/ NextPage
SpecOperations == InitOperations /\ [][NextOperations]_vars

\* ---- reading a request
Requested == task.pc # "ready"
UserBlocks == task.request.messages[2].blocks
Kinds(blocks) == [i \in 1..Len(blocks) |-> blocks[i].kind]
NoShape == \A k \in ShapeKeys : task.itemContext.ctx[k] = ""

\* C17 as stated: formatItemContext writes the lines of at most one of the
\* employment and education shapes, and each label at most once.
C17_ExclusiveShapes ==
  Requested =>
    LET labels == [i \in 1..Len(task.contextText) |-> task.contextText[i].head]
    IN  /\ ~ /\ Range(labels) \cap {"Position", "Company", "Location",
                                     "Type of Employment", "Company Description"} # {}
             /\ Range(labels) \cap {"Institution", "Study Type", "Area", "Score"} # {}
        /\ \A i, j \in 1..Len(labels) : i # j => labels[i] # labels[j]

\* C18: with none of company, position and institution populated,
\* formatItemContext returns the empty string, and the user message of the
\* task operation has no edit-context block: neither its introduction nor
\* its separator.
C18_EmptyContextOmitted ==
  (Requested /\ NoShape) =>
    /\ FormatItemContext(task.itemContext.ctx) = <<>>
    /\ task.contextText = <<>>
    /\ \A i \in 1..Len(UserBlocks) :
         /\ UserBlocks[i].kind # "edit"
         /\ UserBlocks[i].separator => UserBlocks[i].kind = "document"

\* fixGrammar with an item context of a location and a date only
C18_Witness ==
  /\ task.pc = "awaiting"
  /\ task.source = "fix-grammar.ts"
  /\ task.itemContext.supplied
  /\ task.itemContext.ctx["location"] # ""
  /\ NoShape
  /\ "edit" \notin Range(Kinds(UserBlocks))

C20_DocumentOnlyIfEnabled ==
  Requested =>
    /\ ~task.includeResumeContext => "document" \notin Range(Kinds(UserBlocks))
    /\ (task.includeResumeContext /\ task.resumeData.supplied)
         => "document" \in Range(Kinds(UserBlocks))

\* ---- the answer of the model
Answered == task.pc \in {"rejected", "returned"} /\ task.completion # <<>>
NothingUsable ==
  \/ ~task.completion[1].content
  \/ TrimText(task.completion[1].text) = EmptyText

\* C21: when the completion has no choice, improveWriting, fixGrammar and
\* changeTone reject with the error "OpenAI did not return any choices for
\* your text." and return nothing: no text that could replace the caller's.
C21_ZeroChoicesReject ==
  (Answered /\ task.completion[1].choices = 0) =>
    /\ task.pc = "rejected"
    /\ task.error = "OpenAI did not return any choices for your text."
    /\ task.returned.format = "none"

\* fixGrammar answered with `choices: []`
C21_Witness ==
  /\ task.source = "fix-grammar.ts"
  /\ task.calls = 1
  /\ task.completion # <<>>
  /\ task.completion[1].choices = 0
  /\ task.pc = "rejected"

\* C22 as stated: when the content of the first choice is absent, empty or
\* only whitespace, improveWriting returns the converted input (what it
\* sent to the model, rendered as HTML), and never an empty result for a
\* text that is not empty.
C22_FallbackToInput ==
  (Answered /\ task.pc = "returned" /\ task.source = "part_002" /\ NothingUsable) =>
    /\ task.returned.html = ConvertTextToHtml(task.inputText.text)
    /\ task.inputText.text # EmptyText => task.returned.html # <<>>

\* ---- the API key

\* C23: with no API key in the store, improveWriting, fixGrammar and
\* changeTone reject with the error of openai() before create() is called,
\* so that no request has been sent, and fetchModels sets its error and
\* returns without calling models.list().
C23_NoKeyNoCall ==
  /\ (task.pc \notin {"off", "ready"} /\ task.apiKey \in {"null", ""}) =>
       /\ task.pc = "rejected"
       /\ task.error = MissingCredential
       /\ task.calls = 0
       /\ task.completion = <<>>
  /\ (page.pc # "off" /\ page.op = "fetchModels" /\ page.store.apiKey \in {"null", ""}) =>
       /\ page.pc = "idle"
       /\ page.modelError = "Please enter an API key first."

\* changeTone called with no key in the store
C23_Witness ==
  /\ task.pc = "rejected"
  /\ task.source = "change-tone.ts"
  /\ task.apiKey = "null"
  /\ task.error = MissingCredential
  /\ task.calls = 0

\* C24 as stated: an operation that reaches the network sends exactly one
\* request, asking for n = 1 completion, and nothing sends it a second time
\* after a failure.
C24_SingleCall ==
  (task.pc \notin {"off", "ready"} /\ task.calls > 0) =>
    /\ task.calls = 1
    /\ task.request.n = 1

\* C25 as stated: improveWriting, fixGrammar and changeTone send the
\* temperature configured for the task when useDefaultTemperature is on,
\* and no temperature field when it is off.
C25_TemperatureSent ==
  (Requested /\ task.source \in {"part_002", "fix-grammar.ts", "change-tone.ts"}) =>
    /\ task.request.temperature.sent = task.useDefaultTemperature
    /\ (task.source = "part_002" /\ task.useDefaultTemperature)
         => task.request.temperature.value = task.temperatureImprove

\* ---- the order of the output
SectionOrder ==
  <<"basics", "summary", "experience", "education", "projects", "skills",
    "certifications", "awards", "publications", "volunteer", "languages",
    "interests", "references", "custom">>
\* where a line of the output was read from: <<section, item>>, item 0 for
\* what is not an item; <<0, 0>> for a line that holds no value of the document
Origin(doc, line) ==
  LET vs == Range(line.values) \ {""}
      at(k, i) == <<FirstIndex(SectionOrder, k), i>>
  IN  IF vs \cap {doc.basics[x] : x \in DOMAIN doc.basics} # {} THEN at("basics", 0)
      ELSE IF line.head = "## Summary" THEN at("summary", 0)
      ELSE IF \E r \in Range(SectionTable) : r.heading = line.head
      THEN at((CHOOSE r \in Range(SectionTable) : r.heading = line.head).key, 0)
      ELSE IF line.head = "##" THEN at("custom", 0)
      ELSE IF \E k \in DOMAIN doc.sections :
                \E i \in 1..Len(doc.sections[k].items) :
                  vs \cap ValuesOf(doc.sections[k].items[i]) # {}
      THEN LET k == CHOOSE k \in DOMAIN doc.sections :
                      \E i \in 1..Len(doc.sections[k].items) :
                        vs \cap ValuesOf(doc.sections[k].items[i]) # {}
           IN  at(k, CHOOSE i \in 1..Len(doc.sections[k].items) :
                       vs \cap ValuesOf(doc.sections[k].items[i]) # {})
      ELSE IF \E c \in 1..Len(doc.custom) : \E i \in 1..Len(doc.custom[c].items) :
                vs \cap ValuesOf(doc.custom[c].items[i]) # {}
      THEN at("custom", CHOOSE i \in 1..MaxItems :
                          \E c \in 1..Len(doc.custom) :
                            /\ i <= Len(doc.custom[c].items)
                            /\ vs \cap ValuesOf(doc.custom[c].items[i]) # {})
      ELSE <<0, 0>>

\* C26: the text formatResumeAsText returns is the same for the same
\* document, and its lines follow the order basics, summary, experience,
\* education, projects, skills, certifications, awards, publications,
\* volunteer, languages, interests, references, custom sections; within a
\* section the heading comes first and the items follow in stored order.
C26_FixedOrder ==
  Formatted =>
    /\ fmt.out = FormatResumeAsText(fmt.doc)
    /\ LET origins == SelectSeq([i \in 1..Len(fmt.out) |-> Origin(fmt.doc, fmt.out[i])],
                                LAMBDA o : o[1] # 0)
       IN  \A i \in 1..(Len(origins) - 1) :
             \/ origins[i][1] < origins[i + 1][1]
             \/ /\ origins[i][1] = origins[i + 1][1]
                /\ origins[i][2] <= origins[i + 1][2]

\* a document with a summary, skills, experience and a custom section, each
\* section with all its items written
C26_Witness ==
  /\ Formatted
  /\ Len(fmt.doc.sections["experience"].items) = MaxItems
  /\ Len(fmt.doc.sections["skills"].items) = MaxItems
  /\ Len(fmt.doc.custom) = 1
  /\ \A k \in {"experience", "skills"} : \A i \in 1..MaxItems :
       \E n \in 1..Len(fmt.out) : Origin(fmt.doc, fmt.out[n]) = <<FirstIndex(SectionOrder, k), i>>
  /\ \E n \in 1..Len(fmt.out) : Origin(fmt.doc, fmt.out[n]) = <<14, MaxItems>>
  /\ \E n \in 1..Len(fmt.out) : Origin(fmt.doc, fmt.out[n]) = <<2, 0>>

\* C27 as stated: a request sent by a client that openai() built with a
\* custom base URL goes to the proxy, never straight to the network,
\* whatever the store holds when customFetch reads it.
C27_ProxyForCustomClient ==
  (call.kind = "call" /\ pc # "idle") => directCall.kind = "none"

\* ---- the settings page
\* C28: a save writes the base URL, the model and the max-token value of
\* the form only when they are not empty (or zero): with an empty field the
\* stored value stays as it was, so a stored custom base URL is cleared by
\* no save; only onRemove sets it to null.
C28_EmptyFieldsNotSaved ==
  [][(page.pc # "off" /\ page'.pc # "off") =>
       /\ page'.op = "saveSettings" =>
            \A k \in {"baseURL", "model", "maxTokens"} :
              page.saveTimeout[1][k] \in {"", "0"} => page'.store[k] = page.store[k]
       /\ (page.store.baseURL \notin {"null", ""} /\ page'.op # "onRemove")
            => page'.store.baseURL \notin {"null", ""}
       /\ (page.store.baseURL # "null" /\ page'.store.baseURL = "null")
            => page'.op = "onRemove"]_vars

\* the form was saved with its base URL, model and max tokens emptied, and
\* the store still holds the values saved before
C28_Witness ==
  /\ page.pc # "off"
  /\ page.op = "saveSettings"
  /\ page.form.baseURL = "" /\ page.form.model = ""
  /\ page.store.baseURL = "https://a" /\ page.store.model = "m1"
  /\ page.store.apiKey = page.form.apiKey

\* C29 as stated: at most one save timer is pending; it holds the values of
\* the most recent form change, and it was set only if these values are
\* valid; so what a save writes is the most recent, valid, form.
C29_DebouncedSave ==
  page.pc # "off" =>
    /\ Len(page.saveTimeout) <= 1
    /\ page.saveTimeout # <<>> =>
         /\ page.saveTimeout[1] = page.form
         /\ FormSchemaValid(page.saveTimeout[1])
    /\ page.op = "saveSettings" =>
         /\ FormSchemaValid(page.form)
         /\ page.store.apiKey = page.form.apiKey

\* C30: fetchModels with no API key in the store sets the error, sends no
\* request and leaves the loading flag off; with a key it sets the loading
\* flag and clears the error before the request, the flag is cleared when
\* the request has succeeded and when it has failed, which comes to pass,
\* and the error is set after a failure and not after a success.
C30_FetchModelsFlags ==
  /\ []((page.pc # "off" /\ page.mounted) =>
          /\ page.isLoadingModels <=> page.pc = "listing"
          /\ (page.op = "fetchModels" /\ page.pc = "idle") =>
               /\ page.store.apiKey \in {"null", ""}
               /\ page.modelError = "Please enter an API key first."
          /\ (page.op = "fetchModels" /\ page.pc = "listing") =>
               /\ page.store.apiKey \notin {"null", ""}
               /\ page.modelError = ""
          /\ page.op = "listed" => page.modelError = ""
          /\ page.op = "failed" => page.modelError = "error.message")
  /\ (page.pc = "listing") ~> (page.pc = "idle")

\* a fetch that failed: the flag is off again and the error is shown
C30_Witness ==
  /\ page.pc = "idle"
  /\ page.mounted
  /\ page.op = "failed"
  /\ ~page.isLoadingModels
  /\ page.modelError = "error.message"

====
